---- MODULE Spec2Model ----
(***************************************************************************)
(* A model of crypto_indicators.py: the symbol mapping and the HTTP fetch  *)
(* of fetch_ohlcv, compute_sma, compute_pct_change, write_csv and main.    *)
(*                                                                         *)
(* Strings are sequences of one-character strings.  Floating-point values  *)
(* are exact rationals <<n, d>> in lowest terms with d > 0, so equality of *)
(* two values is equality of the pairs.                                    *)
(***************************************************************************)
EXTENDS Integers, Sequences, FiniteSets, TLC

VARIABLES
    pc,            \* position of the single thread of control
    symbol,        \* args.symbol
    trading_pair,  \* fetch_ohlcv's trading_pair
    response,      \* what the provider answers to the GET
    warned,        \* the "Warning: Only ..." line was printed
    diag,          \* the diagnostic printed before the process ends
    exitCode,      \* the process's exit status, -1 while it runs
    ohlcv_data,    \* the list fetch_ohlcv returns
    window,        \* compute_sma's window argument
    sma_values,    \* compute_sma's result
    pct_change,    \* compute_pct_change's result
    csvfile,       \* the lines of the artifact at out_path, <<>> when absent
    handle,        \* the file object of write_csv: "none", "open", "closed"
    stages         \* the stages that have completed, in order

vars == <<pc, symbol, trading_pair, response, warned, diag, exitCode,
          ohlcv_data, window, sma_values, pct_change, csvfile, handle, stages>>

---------------------------------------------------------------------------
(* Bounds of the model.                                                    *)

\* the provider may answer with up to limit + MaxOver candles
MaxOver == 1
\* longest symbol enumerated over SymChars
MaxSymLen == 4
\* longest series handed to the indicator functions on their own
MaxLen == 4
\* largest window handed to compute_sma on its own
MaxWindow == 5
\* closes of the enumerated series range over 0..MaxClose
MaxClose == 2

---------------------------------------------------------------------------
(* Program constants.                                                      *)

\* params['limit'] and the "expected 60" threshold
Limit == 60
\* "need at least 10 minutes"
MinCandles == 10
\* main's window=10
SmaWindow == 10
\* kline[0] / 1000
MsPerSecond == 1000

---------------------------------------------------------------------------
(* Characters and strings.                                                 *)

LowerAlpha == <<"a","b","c","d","e","f","g","h","i","j","k","l","m",
                "n","o","p","q","r","s","t","u","v","w","x","y","z">>
UpperAlpha == <<"A","B","C","D","E","F","G","H","I","J","K","L","M",
                "N","O","P","Q","R","S","T","U","V","W","X","Y","Z">>

IndexIn(alpha, c) == CHOOSE i \in 1..Len(alpha) : alpha[i] = c
IsIn(alpha, c) == \E i \in 1..Len(alpha) : alpha[i] = c

LowerChar(c) == IF IsIn(UpperAlpha, c) THEN LowerAlpha[IndexIn(UpperAlpha, c)] ELSE c
UpperChar(c) == IF IsIn(LowerAlpha, c) THEN UpperAlpha[IndexIn(LowerAlpha, c)] ELSE c

\* str.lower() and str.upper()
Lower(s) == [i \in 1..Len(s) |-> LowerChar(s[i])]
Upper(s) == [i \in 1..Len(s) |-> UpperChar(s[i])]

\* str.endswith(suffix)
EndsWith(s, suffix) ==
    /\ Len(s) >= Len(suffix)
    /\ SubSeq(s, Len(s) - Len(suffix) + 1, Len(s)) = suffix

USDT == <<"U","S","D","T">>

\* symbol_map, as key/value pairs
symbol_map ==
    << [key |-> <<"b","i","t","c","o","i","n">>,         value |-> <<"B","T","C">> \o USDT],
       [key |-> <<"e","t","h","e","r","e","u","m">>,     value |-> <<"E","T","H">> \o USDT],
       [key |-> <<"c","a","r","d","a","n","o">>,         value |-> <<"A","D","A">> \o USDT],
       [key |-> <<"s","o","l","a","n","a">>,             value |-> <<"S","O","L">> \o USDT],
       [key |-> <<"d","o","g","e","c","o","i","n">>,     value |-> <<"D","O","G","E">> \o USDT],
       [key |-> <<"l","i","t","e","c","o","i","n">>,     value |-> <<"L","T","C">> \o USDT],
       [key |-> <<"c","h","a","i","n","l","i","n","k">>, value |-> <<"L","I","N","K">> \o USDT],
       [key |-> <<"p","o","l","k","a","d","o","t">>,     value |-> <<"D","O","T">> \o USDT] >>

\* key in symbol_map
InMap(k) == \E i \in 1..Len(symbol_map) : symbol_map[i].key = k
\* symbol_map[key]
MapAt(k) == symbol_map[CHOOSE i \in 1..Len(symbol_map) : symbol_map[i].key = k].value
\* symbol_map.get(key, default)
MapGet(k, default) == IF InMap(k) THEN MapAt(k) ELSE default

\* the suffix step of a faulty variant that appends the quote currency to every unmapped name
AlwaysSuffix(pair, sym) ==
    IF InMap(Lower(sym)) THEN pair ELSE pair \o USDT

\* lines 43-46: the if / elif that follows the lookup
ApplySuffix(pair, sym) ==
    IF ~EndsWith(pair, USDT) /\ InMap(Lower(sym)) THEN MapAt(Lower(sym))
    ELSE IF ~EndsWith(pair, USDT) THEN pair \o USDT
    ELSE pair

\* lines 42-46: the trading pair fetch_ohlcv asks the provider for
ResolvePair(sym) == ApplySuffix(MapGet(Lower(sym), Upper(sym)), sym)

---------------------------------------------------------------------------
(* Numbers: a float is modelled by the exact rational it stands for.       *)

Abs(x) == IF x < 0 THEN -x ELSE x

RECURSIVE GCD(_, _)
GCD(a, b) == IF b = 0 THEN a ELSE GCD(b, a % b)

\* the rational n / d (d # 0) in lowest terms with a positive denominator
Rat(n, d) ==
    LET g == GCD(Abs(n), Abs(d))
        sgn == IF d < 0 THEN -1 ELSE 1
    IN  <<(sgn * n) \div g, (sgn * d) \div g>>

RatInt(k) == <<k, 1>>
RatAdd(a, b) == Rat(a[1] * b[2] + b[1] * a[2], a[2] * b[2])
RatSub(a, b) == Rat(a[1] * b[2] - b[1] * a[2], a[2] * b[2])
RatMul(a, b) == Rat(a[1] * b[1], a[2] * b[2])
RatDiv(a, b) == Rat(a[1] * b[2], a[2] * b[1])
RatIsZero(a) == a[1] = 0

Digits == <<"0","1","2","3","4","5","6","7","8","9">>
IsDigit(c) == IsIn(Digits, c)
DigitVal(c) == IndexIn(Digits, c) - 1

RECURSIVE Pow10(_)
Pow10(k) == IF k = 0 THEN 1 ELSE 10 * Pow10(k - 1)

\* the value of a string of decimal digits
RECURSIVE DigitsVal(_)
DigitsVal(s) ==
    IF Len(s) = 0 THEN 0
    ELSE 10 * DigitsVal(SubSeq(s, 1, Len(s) - 1)) + DigitVal(s[Len(s)])

\* str(k) for an integer k >= 0
RECURSIVE NatStr(_)
NatStr(k) == IF k < 10 THEN <<Digits[k + 1]>> ELSE NatStr(k \div 10) \o <<Digits[(k % 10) + 1]>>

\* str(k) for any integer
IntStr(k) == IF k < 0 THEN <<"-">> \o NatStr(-k) ELSE NatStr(k)

\* the position of the first "." of s, or 0
DotAt(s) ==
    IF \E i \in 1..Len(s) : s[i] = "."
    THEN CHOOSE i \in 1..Len(s) : s[i] = "." /\ \A j \in 1..(i - 1) : s[j] # "."
    ELSE 0

\* the unsigned decimal notations float() accepts here: digits, with an
\* optional "." among them, and at least one digit
IsDecimal(s) ==
    LET dot == DotAt(s)
    IN  /\ \A i \in 1..Len(s) : i # dot => IsDigit(s[i])
        /\ Len(s) > (IF dot = 0 THEN 0 ELSE 1)

\* float(s) of a decimal string, an optional leading "-" included
ParseUnsigned(s) ==
    LET dot == DotAt(s)
        whole == IF dot = 0 THEN s ELSE SubSeq(s, 1, dot - 1)
        frac == IF dot = 0 THEN <<>> ELSE SubSeq(s, dot + 1, Len(s))
    IN  Rat(DigitsVal(whole) * Pow10(Len(frac)) + DigitsVal(frac), Pow10(Len(frac)))

IsFloatStr(s) ==
    IF Len(s) > 0 /\ s[1] = "-" THEN IsDecimal(Tail(s)) ELSE IsDecimal(s)

ParseFloat(s) ==
    IF s[1] = "-" THEN RatSub(RatInt(0), ParseUnsigned(Tail(s))) ELSE ParseUnsigned(s)

\* x rounded to an integer, ties to the even neighbour, as the format
\* specification rounds the value it is given
RoundHalfEven(x) ==
    LET n == x[1]
        d == x[2]
        fl == IF n >= 0 THEN n \div d ELSE -((-n + d - 1) \div d)
        twice == 2 * (n - fl * d)
    IN  IF twice < d THEN fl
        ELSE IF twice > d THEN fl + 1
        ELSE IF fl % 2 = 0 THEN fl ELSE fl + 1

\* f"{x:.2f}": sign, integer digits, ".", exactly two digits
Fmt2(x) ==
    LET h == RoundHalfEven(RatMul(x, RatInt(100)))
        a == Abs(h)
        sign == IF h < 0 \/ (h = 0 /\ x[1] < 0) THEN <<"-">> ELSE <<>>
    IN  sign \o NatStr(a \div 100) \o <<".">>
             \o <<Digits[((a % 100) \div 10) + 1], Digits[(a % 10) + 1]>>

---------------------------------------------------------------------------
(* The provider's answer.  A JSON value is described by its type and size; *)
(* the elements of an array are generated from a pattern.                  *)

NumF(v) == [t |-> "num", v |-> v, s |-> <<>>]
StrF(s) == [t |-> "str", v |-> 0, s |-> s]
NullF == [t |-> "null", v |-> 0, s |-> <<>>]

\* a price of h hundredths written as the provider writes it, "123.45"
PriceStr(h) ==
    NatStr(h \div 100) \o <<".">> \o <<Digits[((h % 100) \div 10) + 1], Digits[(h % 10) + 1]>>

Patterns == {"flat", "ramp", "zero"}

\* the close of the i-th candle (i >= 1) of a pattern, in hundredths
PatClose(pat, i) ==
    CASE pat = "flat" -> 10000
      [] pat = "ramp" -> 300 + 50 * (i - 1)
      [] pat = "zero" -> 25 * (i - 1)

\* open time of the i-th candle in milliseconds: one minute apart, with a
\* sub-second remainder
PatOpenMs(i) == 1200000 + 60000 * (i - 1) + 999

\* a well-formed kline; the "flat" pattern carries the provider's six
\* further fields
GoodKline(pat, i) ==
    LET c == PatClose(pat, i)
        six == << NumF(PatOpenMs(i)), StrF(PriceStr(c)), StrF(PriceStr(c + 125)),
                  StrF(PriceStr(c)), StrF(PriceStr(c)), StrF(<<"1","2",".","3","4","6">>) >>
        more == << NumF(PatOpenMs(i) + 59000), StrF(PriceStr(c)), NumF(7),
                   StrF(<<"1",".","0">>), StrF(<<"1",".","0">>), StrF(<<"0">>) >>
    IN  [t |-> "array", f |-> IF pat = "flat" THEN six \o more ELSE six]

BadKinds == {"short", "strtime", "badprice", "nullprice", "notarray"}

\* a kline that is not of the expected form
BadKline(pat, i, kind) ==
    LET g == GoodKline(pat, i).f
    IN  CASE kind = "short"     -> [t |-> "array", f |-> SubSeq(g, 1, 5)]
          [] kind = "strtime"   -> [t |-> "array", f |-> [g EXCEPT ![1] = StrF(NatStr(PatOpenMs(i)))]]
          [] kind = "badprice"  -> [t |-> "array", f |-> [g EXCEPT ![5] = StrF(<<"1","0","x">>)]]
          [] kind = "nullprice" -> [t |-> "array", f |-> [g EXCEPT ![3] = NullF]]
          [] kind = "notarray"  -> [t |-> "number", f |-> <<>>]

Resp(kind, json, n, pat, badAt, badKind) ==
    [kind |-> kind, json |-> json, n |-> n, pat |-> pat, badAt |-> badAt, badKind |-> badKind]

MaxCandles == Limit + MaxOver

\* the answers considered: transport failures, error statuses, bodies that
\* are not JSON, JSON values that are no array, and arrays of 0..MaxCandles
\* klines of which at most one is malformed
Responses ==
    {Resp(k, "none", 0, "flat", 0, "none") : k \in {"timeout", "connection", "status"}}
    \cup {Resp("ok", "invalid", 0, "flat", 0, "none")}
    \cup {Resp("ok", "null", 0, "flat", 0, "none")}
    \cup {Resp("ok", j, n, "flat", 0, "none") :
              j \in {"number", "object", "string"}, n \in {0, 5, 12}}
    \cup {Resp("ok", "array", n, pat, 0, "none") : n \in 0..MaxCandles, pat \in Patterns}
    \cup {Resp("ok", "array", n, "ramp", b, k) :
              n \in {5, 10, 30, Limit}, b \in {1, 5}, k \in BadKinds}

\* data[i - 1] of an array answer
RawKline(r, i) ==
    IF r.badAt = i THEN BadKline(r.pat, i, r.badKind) ELSE GoodKline(r.pat, i)

\* bool(data) is false: None, 0, "", {} and []
Falsy(r) == r.json = "null" \/ r.n = 0

\* len(data) is defined
Sized(r) == r.json \in {"array", "object", "string"}

---------------------------------------------------------------------------
(* Lines 86-95: decoding one kline.                                        *)

\* the exception that evaluating field k (1 = timestamp, 2..6 = open..volume)
\* of the dict display raises, "none" when it has a value
FieldExc(e, k) ==
    IF e.t # "array" THEN "TypeError"
    ELSE IF Len(e.f) < k THEN "IndexError"
    ELSE IF k = 1 THEN (IF e.f[1].t = "num" THEN "none" ELSE "TypeError")
    ELSE CASE e.f[k].t = "num" -> "none"
           [] e.f[k].t = "null" -> "TypeError"
           [] e.f[k].t = "str" -> IF IsFloatStr(e.f[k].s) THEN "none" ELSE "ValueError"

\* the fields are evaluated in order; the first exception is the one raised
KlineExc(e) ==
    IF \A k \in 1..6 : FieldExc(e, k) = "none" THEN "none"
    ELSE FieldExc(e, CHOOSE k \in 1..6 :
                        /\ FieldExc(e, k) # "none"
                        /\ \A j \in 1..(k - 1) : FieldExc(e, j) = "none")

\* float(x) of a field that has a value
FloatOf(x) == IF x.t = "num" THEN RatInt(x.v) ELSE ParseFloat(x.s)

\* the dict appended for a well-formed kline
Candle(e) ==
    [timestamp |-> e.f[1].v \div MsPerSecond,
     open |-> FloatOf(e.f[2]), high |-> FloatOf(e.f[3]), low |-> FloatOf(e.f[4]),
     close |-> FloatOf(e.f[5]), volume |-> FloatOf(e.f[6])]

\* the exception the loop over data raises, "none" when it completes.  The
\* items of an object are its keys and those of a string its characters:
\* kline[0] is then a string, and dividing it raises TypeError.
LoopExc(r) ==
    IF r.json # "array" THEN "TypeError"
    ELSE IF \A i \in 1..r.n : KlineExc(RawKline(r, i)) = "none" THEN "none"
    ELSE KlineExc(RawKline(r, CHOOSE i \in 1..r.n :
                                 /\ KlineExc(RawKline(r, i)) # "none"
                                 /\ \A j \in 1..(i - 1) : KlineExc(RawKline(r, j)) = "none"))

\* ohlcv_data when the loop completes
Decoded(r) == [i \in 1..r.n |-> Candle(RawKline(r, i))]

---------------------------------------------------------------------------
(* Lines 58-98: what fetch_ohlcv does with an answer.                      *)

\* How response.json() reports a body that is not JSON depends on the
\* installed libraries: requests >= 2.27 raises requests' JSONDecodeError,
\* a RequestException; older releases raise json.JSONDecodeError, or
\* simplejson's error (no json.JSONDecodeError) when simplejson is installed.
JsonLibs == {"requests", "stdlib", "simplejson"}

Outcome(msg, exc, warn) == [msg |-> msg, exc |-> exc, warn |-> warn]

\* the exception the GET and raise_for_status raise, "none" on a 2xx answer
RequestExc(r) ==
    CASE r.kind = "timeout" -> "Timeout"
      [] r.kind = "connection" -> "ConnectionError"
      [] r.kind = "status" -> "HTTPError"
      [] r.kind = "ok" -> "none"

\* lines 77-81 of a faulty variant that lets any non-empty answer through
SizeCheckNoMinimum(r) == Outcome("none", "none", r.n < Limit)

\* lines 77-81: the warning below 60 items and the error below 10
SizeCheck(r) ==
    IF r.n < Limit
    THEN IF r.n < MinCandles
         THEN Outcome("insufficient", "none", TRUE)
         ELSE Outcome("none", "none", TRUE)
    ELSE Outcome("none", "none", FALSE)

\* lines 69-75 of a faulty variant whose handlers let the failure propagate
HandlersMissing(exc, lib) == Outcome("traceback", exc, FALSE)

\* lines 69-75: the except clauses, tried in order, for an exception raised
\* in the try block
Handlers(exc, lib) ==
    IF exc \in {"Timeout", "ConnectionError", "HTTPError"} THEN Outcome("fetching", exc, FALSE)
    ELSE IF exc = "JSONDecodeError" /\ lib = "requests" THEN Outcome("fetching", exc, FALSE)
    ELSE IF exc = "JSONDecodeError" /\ lib = "stdlib" THEN Outcome("parsing", exc, FALSE)
    ELSE Outcome("traceback", exc, FALSE)

\* the message printed ("none" when fetch_ohlcv returns), the exception
\* behind it, and whether the warning was printed
FetchOutcome(r, lib) ==
    IF RequestExc(r) # "none" THEN Handlers(RequestExc(r), lib)
    ELSE IF r.json = "invalid" THEN Handlers("JSONDecodeError", lib)
    ELSE IF Falsy(r) THEN Outcome("nodata", "none", FALSE)
    ELSE IF ~Sized(r) THEN Outcome("traceback", "TypeError", FALSE)
    ELSE IF SizeCheck(r).msg # "none" THEN SizeCheck(r)
    ELSE IF LoopExc(r) # "none" THEN Outcome("traceback", LoopExc(r), SizeCheck(r).warn)
    ELSE SizeCheck(r)

---------------------------------------------------------------------------
(* Lines 101-147: the indicators.                                          *)

\* sum(xs), from 0, left to right
RECURSIVE Sum(_)
Sum(xs) == IF Len(xs) = 0 THEN RatInt(0)
           ELSE RatAdd(Sum(SubSeq(xs, 1, Len(xs) - 1)), xs[Len(xs)])

\* a faulty variant whose warm-up test is i < window
compute_sma_late(data, w) ==
    [i \in 1..Len(data) |->
        IF i - 1 < w THEN data[i].close
        ELSE RatDiv(Sum([j \in 1..w |-> data[i - w + j].close]), RatInt(w))]

\* a faulty variant that emits no value for the warm-up rows
compute_sma_short(data, w) ==
    [k \in 1..(IF Len(data) >= w THEN Len(data) - w + 1 ELSE 0) |->
        RatDiv(Sum([j \in 1..w |-> data[k - 1 + j].close]), RatInt(w))]

\* compute_sma(data, window) for window >= 1; position i here is the
\* source's i + 1, and range(i - window + 1, i + 1) is (i - w + 1)..i
compute_sma(data, w) ==
    [i \in 1..Len(data) |->
        IF i - 1 < w - 1 THEN data[i].close
        ELSE LET window_closes == [j \in 1..w |-> data[i - w + j].close]
             IN  RatDiv(Sum(window_closes), RatInt(w))]

\* a faulty variant that measures the change from the last close to the first
compute_pct_change_swapped(data) ==
    IF Len(data) < 2 THEN RatInt(0)
    ELSE IF RatIsZero(data[1].close) THEN RatInt(0)
    ELSE RatMul(RatDiv(RatSub(data[1].close, data[Len(data)].close), data[1].close),
                RatInt(100))

\* compute_pct_change(data)
compute_pct_change(data) ==
    IF Len(data) < 2 THEN RatInt(0)
    ELSE LET first_close == data[1].close
             last_close == data[Len(data)].close
         IN  IF RatIsZero(first_close) THEN RatInt(0)
             ELSE RatMul(RatDiv(RatSub(last_close, first_close), first_close), RatInt(100))

---------------------------------------------------------------------------
(* Lines 160-178: the rows of the artifact.                                *)

fieldnames == << <<"t","i","m","e","s","t","a","m","p">>, <<"o","p","e","n">>,
                 <<"h","i","g","h">>, <<"l","o","w">>, <<"c","l","o","s","e">>,
                 <<"v","o","l","u","m","e">>, <<"s","m","a","_","1","0">>,
                 <<"p","c","t","_","c","h","a","n","g","e">> >>

\* a faulty variant that writes the change accumulated up to the row
OutputRowRolling(data, sma_list, pct, i) ==
    << IntStr(data[i].timestamp), Fmt2(data[i].open), Fmt2(data[i].high),
       Fmt2(data[i].low), Fmt2(data[i].close), Fmt2(data[i].volume),
       IF i <= Len(sma_list) THEN Fmt2(sma_list[i]) ELSE <<>>,
       Fmt2(compute_pct_change(SubSeq(data, 1, i))) >>

\* output_row for data[i - 1], as the fields writerow writes
OutputRow(data, sma_list, pct, i) ==
    << IntStr(data[i].timestamp), Fmt2(data[i].open), Fmt2(data[i].high),
       Fmt2(data[i].low), Fmt2(data[i].close), Fmt2(data[i].volume),
       IF i <= Len(sma_list) THEN Fmt2(sma_list[i]) ELSE <<>>,
       Fmt2(pct) >>

---------------------------------------------------------------------------
(* The run of main: resolve, fetch, compute, write.                        *)

NoDiag == [msg |-> "none", exc |-> "none"]
NoResp == Resp("none", "none", 0, "flat", 0, "none")

\* the symbols given on the command line
Symbols == { <<"b","i","t","c","o","i","n">>, <<"X","R","P">>,
             <<"e","t","h","u","s","d","t">> }

Init ==
    /\ pc = "resolve"
    /\ symbol \in Symbols
    /\ trading_pair = <<>>
    /\ response = NoResp
    /\ warned = FALSE
    /\ diag = NoDiag
    /\ exitCode = -1
    /\ ohlcv_data = <<>>
    /\ window = SmaWindow
    /\ sma_values = <<>>
    /\ pct_change = <<>>
    /\ csvfile = <<>>
    /\ handle = "none"
    /\ stages = <<>>

\* lines 30-46
Resolve ==
    /\ pc = "resolve"
    /\ trading_pair' = ResolvePair(symbol)
    /\ pc' = "request"
    /\ stages' = Append(stages, "resolve")
    /\ UNCHANGED <<symbol, response, warned, diag, exitCode, ohlcv_data, window,
                   sma_values, pct_change, csvfile, handle>>

\* lines 58-98: the request, the checks and the decoding, to the return or
\* to the end of the process
Fetch ==
    /\ pc = "request"
    /\ \E r \in Responses, lib \in JsonLibs :
         LET o == FetchOutcome(r, lib)
         IN  /\ response' = r
             /\ warned' = o.warn
             /\ IF o.msg = "none"
                THEN /\ ohlcv_data' = Decoded(r)
                     /\ pc' = "compute"
                     /\ stages' = Append(stages, "fetch")
                     /\ UNCHANGED <<diag, exitCode>>
                ELSE /\ diag' = [msg |-> o.msg, exc |-> o.exc]
                     /\ exitCode' = 1
                     /\ pc' = "exit"
                     /\ UNCHANGED <<ohlcv_data, stages>>
    /\ UNCHANGED <<symbol, trading_pair, window, sma_values, pct_change, csvfile, handle>>

\* lines 211-216
Compute ==
    /\ pc = "compute"
    /\ sma_values' = compute_sma(ohlcv_data, SmaWindow)
    /\ pct_change' = compute_pct_change(ohlcv_data)
    /\ pc' = "open"
    /\ stages' = Append(stages, "compute")
    /\ UNCHANGED <<symbol, trading_pair, response, warned, diag, exitCode, ohlcv_data,
                   window, csvfile, handle>>

\* lines 182-184 of a faulty variant that reports the failure and lets main go on
\* to its end
WriteFailedExitsZero ==
    /\ diag' = [msg |-> "writing", exc |-> "IOError"]
    /\ exitCode' = 0
    /\ pc' = "exit"
    /\ handle' = IF handle = "open" THEN "closed" ELSE handle

\* lines 182-184 of a faulty variant that ends the process inside the with block
WriteFailedLeak ==
    /\ diag' = [msg |-> "writing", exc |-> "IOError"]
    /\ exitCode' = 1
    /\ pc' = "exit"
    /\ UNCHANGED handle

\* lines 182-184, reached once the with statement has closed the file it
\* had opened
WriteFailed ==
    /\ diag' = [msg |-> "writing", exc |-> "IOError"]
    /\ exitCode' = 1
    /\ pc' = "exit"
    /\ handle' = IF handle = "open" THEN "closed" ELSE handle

\* line 163: open(out_path, 'w') truncates the file, or raises
WriteOpen ==
    /\ pc = "open"
    /\ \/ /\ handle' = "open"
          /\ csvfile' = <<>>
          /\ pc' = "header"
          /\ UNCHANGED <<diag, exitCode>>
       \/ /\ handle = "none"
          /\ WriteFailed
          /\ UNCHANGED csvfile
    /\ UNCHANGED <<symbol, trading_pair, response, warned, ohlcv_data, window,
                   sma_values, pct_change, stages>>

\* line 165
WriteHeader ==
    /\ pc = "header"
    /\ \/ /\ csvfile' = Append(csvfile, fieldnames)
          /\ pc' = "rows"
          /\ UNCHANGED <<diag, exitCode, handle>>
       \/ /\ WriteFailed
          /\ UNCHANGED csvfile
    /\ UNCHANGED <<symbol, trading_pair, response, warned, ohlcv_data, window,
                   sma_values, pct_change, stages>>

\* lines 167-178: one turn of the loop; the header is line 1, so the next
\* row to write is row Len(csvfile)
WriteRow ==
    /\ pc = "rows"
    /\ Len(csvfile) <= Len(ohlcv_data)
    /\ \/ /\ csvfile' = Append(csvfile,
                               OutputRow(ohlcv_data, sma_values, pct_change, Len(csvfile)))
          /\ UNCHANGED <<pc, diag, exitCode, handle>>
       \/ /\ WriteFailed
          /\ UNCHANGED csvfile
    /\ UNCHANGED <<symbol, trading_pair, response, warned, ohlcv_data, window,
                   sma_values, pct_change, stages>>

\* the end of the with block, lines 180 and 221: the file is flushed and
\* closed, and main returns; a flush that fails still closes the file
WriteClose ==
    /\ pc = "rows"
    /\ Len(csvfile) = Len(ohlcv_data) + 1
    /\ \/ /\ handle' = "closed"
          /\ stages' = Append(stages, "write")
          /\ exitCode' = 0
          /\ pc' = "exit"
          /\ UNCHANGED diag
       \/ /\ WriteFailed
          /\ UNCHANGED stages
    /\ UNCHANGED <<symbol, trading_pair, response, warned, ohlcv_data, window,
                   sma_values, pct_change, csvfile>>

Next == Resolve \/ Fetch \/ Compute \/ WriteOpen \/ WriteHeader \/ WriteRow \/ WriteClose

Spec == Init /\ [][Next]_vars

---------------------------------------------------------------------------
(* The symbol mapping on its own, over many symbols.                       *)

SymChars == {"u", "s", "d", "t", "T", "x"}

\* str.capitalize() of a key, one of the letter cases a name is typed in
Capitalized(s) == [i \in 1..Len(s) |-> IF i = 1 THEN UpperChar(s[i]) ELSE s[i]]

ResolveInputs ==
    Symbols
    \cup {symbol_map[i].key : i \in 1..Len(symbol_map)}
    \cup {Upper(symbol_map[i].key) : i \in 1..Len(symbol_map)}
    \cup {Capitalized(symbol_map[i].key) : i \in 1..Len(symbol_map)}
    \cup {symbol_map[i].value : i \in 1..Len(symbol_map)}
    \cup UNION {[1..k -> SymChars] : k \in 0..MaxSymLen}

InitResolve ==
    /\ pc = "resolve"
    /\ symbol \in ResolveInputs
    /\ trading_pair = <<>>
    /\ response = NoResp
    /\ warned = FALSE
    /\ diag = NoDiag
    /\ exitCode = -1
    /\ ohlcv_data = <<>>
    /\ window = SmaWindow
    /\ sma_values = <<>>
    /\ pct_change = <<>>
    /\ csvfile = <<>>
    /\ handle = "none"
    /\ stages = <<>>

SpecResolve == InitResolve /\ [][Resolve]_vars

---------------------------------------------------------------------------
(* The indicator functions on their own, over every short series.          *)

\* a candle that closes at the whole price c
MkCandle(i, c) ==
    [timestamp |-> 60 * i, open |-> RatInt(c), high |-> RatInt(c), low |-> RatInt(c),
     close |-> RatInt(c), volume |-> RatInt(1)]

SeriesOver(closes) ==
    UNION {{[i \in 1..k |-> MkCandle(i, cs[i])] : cs \in [1..k -> closes]} : k \in 0..MaxLen}

InitSMA ==
    /\ pc = "call_sma"
    /\ ohlcv_data \in SeriesOver(0..MaxClose)
    /\ window \in 1..MaxWindow
    /\ symbol = <<>>
    /\ trading_pair = <<>>
    /\ response = NoResp
    /\ warned = FALSE
    /\ diag = NoDiag
    /\ exitCode = -1
    /\ sma_values = <<>>
    /\ pct_change = <<>>
    /\ csvfile = <<>>
    /\ handle = "none"
    /\ stages = <<>>

\* a call of compute_sma(data, window)
CallSMA ==
    /\ pc = "call_sma"
    /\ sma_values' = compute_sma(ohlcv_data, window)
    /\ pc' = "sma_returned"
    /\ UNCHANGED <<symbol, trading_pair, response, warned, diag, exitCode, ohlcv_data,
                   window, pct_change, csvfile, handle, stages>>

SpecSMA == InitSMA /\ [][CallSMA]_vars

InitPct ==
    /\ pc = "call_pct"
    /\ ohlcv_data \in SeriesOver((0..MaxClose) \cup {100, 150, 200})
    /\ window = SmaWindow
    /\ symbol = <<>>
    /\ trading_pair = <<>>
    /\ response = NoResp
    /\ warned = FALSE
    /\ diag = NoDiag
    /\ exitCode = -1
    /\ sma_values = <<>>
    /\ pct_change = <<>>
    /\ csvfile = <<>>
    /\ handle = "none"
    /\ stages = <<>>

\* a call of compute_pct_change(data)
CallPct ==
    /\ pc = "call_pct"
    /\ pct_change' = compute_pct_change(ohlcv_data)
    /\ pc' = "pct_returned"
    /\ UNCHANGED <<symbol, trading_pair, response, warned, diag, exitCode, ohlcv_data,
                   window, sma_values, csvfile, handle, stages>>

SpecPct == InitPct /\ [][CallPct]_vars

---------------------------------------------------------------------------
(* Properties.                                                             *)

Pipeline == <<"resolve", "fetch", "compute", "write">>

\* fetch_ohlcv has returned its list to main
FetchReturned == Len(stages) >= 2 /\ stages[2] = "fetch"

\* the process ended inside fetch_ohlcv
FetchFailed == pc = "exit" /\ stages = <<"resolve">>

\* the answer is a 2xx JSON array of n well-formed klines
IsCandles(r) == r.kind = "ok" /\ r.json = "array" /\ r.badAt = 0

\* C1: for an answer of n candles, n = 0 ends the run with the no-data
\* error, 1 <= n <= 9 ends it with the insufficient-data error, 10 <= n <= 59
\* prints the warning and returns a series of exactly n candles, and n = 60
\* returns 60 candles without a warning.
C1_FetchDecidesOnCount ==
    IsCandles(response) =>
        LET n == response.n
        IN  /\ n = 0 => FetchFailed /\ diag.msg = "nodata" /\ exitCode = 1
            /\ n \in 1..9 => FetchFailed /\ diag.msg = "insufficient" /\ exitCode = 1
            /\ n \in 10..59 =>
                  /\ warned
                  /\ FetchReturned
                  /\ Len(ohlcv_data) = n
                  /\ diag.msg \notin {"nodata", "insufficient", "fetching", "parsing", "traceback"}
            /\ n = 60 =>
                  /\ ~warned
                  /\ FetchReturned
                  /\ Len(ohlcv_data) = 60
                  /\ diag.msg \notin {"nodata", "insufficient", "fetching", "parsing", "traceback"}

C1_Witness ==
    /\ IsCandles(response)
    /\ response.n = 30
    /\ warned
    /\ pc = "compute"
    /\ Len(ohlcv_data) = 30

IsPrefix(p, q) == Len(p) <= Len(q) /\ SubSeq(q, 1, Len(p)) = p

\* C2: a run ends with code 0 after resolve, fetch, compute and write have
\* completed in that order, or with code 1 and a diagnostic at the first
\* fatal error, the later stages not run; after a failed fetch no indicator
\* was computed and the destination was neither opened nor written.
C2_ExitPaths ==
    /\ IsPrefix(stages, Pipeline)
    /\ pc # "exit" => exitCode = -1 /\ diag = NoDiag
    /\ pc = "exit" =>
         \/ exitCode = 0 /\ stages = Pipeline /\ diag = NoDiag
         \/ /\ exitCode = 1
            /\ diag.msg # "none"
            /\ stages # Pipeline
            /\ diag.msg = "writing" <=> stages = <<"resolve", "fetch", "compute">>
            /\ diag.msg # "writing" <=> stages = <<"resolve">>
            /\ FetchFailed => sma_values = <<>> /\ pct_change = <<>>
                              /\ handle = "none" /\ csvfile = <<>>

C2_Witness ==
    /\ pc = "exit"
    /\ exitCode = 1
    /\ diag.msg = "insufficient"
    /\ stages = <<"resolve">>

\* the closes of data at positions lo..hi, added up
RECURSIVE CloseTotal(_, _, _)
CloseTotal(data, lo, hi) ==
    IF lo > hi THEN RatInt(0) ELSE RatAdd(data[lo].close, CloseTotal(data, lo + 1, hi))

\* C3: for window w >= 1, the SMA at the first w - 1 positions is the row's
\* own close, and at every later position it is the arithmetic mean of the
\* w closes that end at the position.
C3_SMAValues ==
    pc = "sma_returned" =>
        \A i \in 1..Len(ohlcv_data) :
            /\ i \in DOMAIN sma_values
            /\ i < window => sma_values[i] = ohlcv_data[i].close
            /\ i >= window =>
                 RatMul(sma_values[i], RatInt(window)) = CloseTotal(ohlcv_data, i - window + 1, i)
            /\ (window = 1 \/ Len(ohlcv_data) < window) => sma_values[i] = ohlcv_data[i].close

C3_Witness ==
    /\ pc = "sma_returned"
    /\ window = 3
    /\ Len(ohlcv_data) = 4
    /\ sma_values[2] = ohlcv_data[2].close
    /\ sma_values[3] # ohlcv_data[3].close
    /\ sma_values[4] = <<5, 3>>

\* C4: compute_sma returns exactly as many values as the series has
\* candles, for the empty series and for series shorter than, as long as
\* and longer than the window.
C4_SMALength ==
    pc = "sma_returned" => Len(sma_values) = Len(ohlcv_data)

C4_Witness ==
    /\ pc = "sma_returned"
    /\ window > 1
    /\ Len(ohlcv_data) > window
    /\ Len(sma_values) = Len(ohlcv_data)

Closes(data) == [i \in 1..Len(data) |-> data[i].close]

\* C5: compute_pct_change returns 0.0 for a series of length 0 or 1 and for
\* a series whose first close is 0; otherwise it returns
\* ((close[last] - close[first]) / close[first]) * 100: 50.0 for closes
\* [100, 150] and -50.0 for closes [200, 100].
C5_PctChange ==
    pc = "pct_returned" =>
        LET n == Len(ohlcv_data)
        IN  /\ n < 2 => pct_change = <<0, 1>>
            /\ (n >= 2 /\ ohlcv_data[1].close = <<0, 1>>) => pct_change = <<0, 1>>
            /\ (n >= 2 /\ ohlcv_data[1].close # <<0, 1>>) =>
                 /\ Len(pct_change) = 2
                 /\ RatMul(pct_change, ohlcv_data[1].close)
                      = RatMul(RatSub(ohlcv_data[n].close, ohlcv_data[1].close), RatInt(100))
            /\ Closes(ohlcv_data) = << <<100, 1>>, <<150, 1>> >> => pct_change = <<50, 1>>
            /\ Closes(ohlcv_data) = << <<200, 1>>, <<100, 1>> >> => pct_change = <<-50, 1>>

C5_Witness ==
    /\ pc = "pct_returned"
    /\ Closes(ohlcv_data) = << <<200, 1>>, <<100, 1>> >>
    /\ pct_change = <<-50, 1>>

\* s is some string followed by "USDT"
HasQuoteSuffix(s) == \E k \in 0..Len(s) : s = SubSeq(s, 1, k) \o <<"U", "S", "D", "T">>

\* C6: resolve returns the mapped pair when the lower-cased input is one of
\* the eight keys, and otherwise the upper-cased input with "USDT" appended
\* only if it does not already end with "USDT"; "bitcoin" gives "BTCUSDT",
\* "XRP" gives "XRPUSDT" and "ethusdt" gives "ETHUSDT".
C6_Resolve ==
    pc = "request" =>
        /\ Len(symbol_map) = 8
        /\ \A i \in 1..Len(symbol_map) :
               Lower(symbol) = symbol_map[i].key => trading_pair = symbol_map[i].value
        /\ (\A i \in 1..Len(symbol_map) : Lower(symbol) # symbol_map[i].key) =>
               trading_pair = IF HasQuoteSuffix(Upper(symbol)) THEN Upper(symbol)
                              ELSE Upper(symbol) \o <<"U", "S", "D", "T">>
        /\ symbol = <<"b","i","t","c","o","i","n">> =>
               trading_pair = <<"B","T","C","U","S","D","T">>
        /\ symbol = <<"X","R","P">> => trading_pair = <<"X","R","P","U","S","D","T">>
        /\ symbol = <<"e","t","h","u","s","d","t">> =>
               trading_pair = <<"E","T","H","U","S","D","T">>

C6_Witness ==
    /\ pc = "request"
    /\ symbol = <<"e","t","h","u","s","d","t">>
    /\ trading_pair = <<"E","T","H","U","S","D","T">>

\* C7: after a successful write of n candles the artifact is the header
\* followed by n rows, one per candle in series order, n + 1 lines in all
\* (61 for 60 candles), with the same pct_change field on every row.
C7_Artifact ==
    (pc = "exit" /\ exitCode = 0) =>
        LET n == Len(ohlcv_data)
        IN  /\ Len(csvfile) = n + 1
            /\ n = 60 => Len(csvfile) = 61
            /\ csvfile[1] = fieldnames
            /\ \A i \in 1..n :
                 /\ Len(csvfile[i + 1]) = 8
                 /\ csvfile[i + 1][1] = IntStr(ohlcv_data[i].timestamp)
                 /\ csvfile[i + 1][5] = Fmt2(ohlcv_data[i].close)
                 /\ csvfile[i + 1][8] = csvfile[2][8]

C7_Witness ==
    /\ pc = "exit"
    /\ exitCode = 0
    /\ response.pat = "ramp"
    /\ Len(ohlcv_data) = 60
    /\ Len(csvfile) = 61
    /\ csvfile[61][5] # csvfile[2][5]
    /\ csvfile[61][8] = csvfile[2][8]

\* the answer cannot be read as an array of klines, and neither the
\* no-data test nor the size test comes before the decoding
MustBeDecodeError(r) ==
    /\ r.kind = "ok"
    /\ \/ r.json = "invalid"
       \/ r.json \in {"number", "object", "string"} /\ r.n >= MinCandles
       \/ r.json = "array" /\ r.n >= MinCandles /\ r.badAt \in 1..r.n

\* C8: an answer that fails to parse as the expected format ends the run
\* with the decode diagnostic and exit code 1, not with the transport
\* diagnostic and not as an unhandled exception.
C8_DecodeErrorReported ==
    (response # NoResp /\ MustBeDecodeError(response)) =>
        /\ pc = "exit"
        /\ exitCode = 1
        /\ diag.msg = "parsing"

\* C9: a series that fetch hands to the indicators has between 1 and 60
\* candles, whatever the number of candles in the answer.
C9_SeriesLength ==
    FetchReturned => Len(ohlcv_data) \in 1..Limit

\* C10: on every exit path of write_csv the file is closed before the
\* process ends; an I/O failure ends the run with the write diagnostic and
\* exit code 1; the step that fails and every later step leave the lines
\* already written as they are.
C10_HandleReleased ==
    /\ [](pc = "exit" => handle # "open")
    /\ [](diag.msg = "writing" => pc = "exit" /\ exitCode = 1)
    /\ [][diag'.msg = "writing" => csvfile' = csvfile]_vars

C10_Witness ==
    /\ pc = "exit"
    /\ diag.msg = "writing"
    /\ exitCode = 1
    /\ handle = "closed"
    /\ Len(csvfile) = 4

====
